---------------------------- MODULE Spec2Model ----------------------------
(***************************************************************************)
(* AutoPitch AI: the Express back end of zackdaniels09/autopitch-ai.        *)
(*                                                                         *)
(* The repository holds several revisions of one server.  The model keeps  *)
(* them apart with the variable rev, fixed by Init:                        *)
(*   "app"      src/public/app.js 297-680   (hardened server)              *)
(*   "part004"  src/unnamed/part_004                                       *)
(*   "part001"  src/unnamed/part_001                                       *)
(*   "part003"  src/unnamed/part_003        (plan-aware cookies)           *)
(*   "part000"  src/unnamed/part_000        (HMAC token, freeQuota)        *)
(* and the burst limiter chains with the variable limiter:                 *)
(*   "list"     src/index.js 54-68          (timestamp list)               *)
(*   "window"   src/public/app.js 164-175   (fixed window counter)         *)
(*   "quota"    src/unnamed/part_000 157    (freeQuota before genLimiter)  *)
(*                                                                         *)
(* A /generate handler is a sequence of synchronous steps separated by its *)
(* awaits (the challenge verification and the LLM vendor call); each step  *)
(* is one action, and the handlers in flight are the bag inflight.         *)
(***************************************************************************)
EXTENDS Integers, Sequences, FiniteSets, Bags, TLC

VARIABLES
    rev,        \* the revision of the server that runs
    turnstile,  \* env.TURNSTILE_SECRET_KEY is set
    today,      \* dayKey(): the calendar day (UTC), as a day number
    heap,       \* the usage entry objects, by reference: <<[calls, limitHits]>>
    usage,      \* usage map: key -> reference into heap (0: no entry)
    hits,       \* part_000's hits map: key -> count
    counters,   \* counters.totalCalls, counters.limit402
    inflight,   \* bag of suspended /generate handlers
    jar,        \* the cookies the browser holds (set by /claim)
    nReq,       \* history: /generate requests that reached the route, per key
    n200,       \* history: /generate requests answered 200, per key
    nVendor,    \* history: LLM vendor calls made, per key
    last,       \* the response sent by the latest handler step that responded
    overlap,    \* history: a /generate request arrived while another was suspended
    limiter,    \* which burst limiter runs (burst limiter specification)
    now,        \* Date.now(), in abstract milliseconds
    buckets,    \* index.js buckets: ip -> timestamps
    recs,       \* app.js buckets: ip -> [start, hits] (start = -1: no record)
    qhits,      \* part_000 hits of the current day, per ip (limiter "quota")
    passed,     \* history: times at which the limiter let a request of ip pass
    lastR,      \* the latest burst limiter decision
    pin,        \* the input of the step under study (request body, LLM text)
    pout        \* what the step made of it

vars == <<rev, turnstile, today, heap, usage, hits, counters, inflight, jar,
          nReq, n200, nVendor, last, overlap, limiter, now, buckets, recs, qhits,
          passed, lastR, pin, pout>>

quotaVars == <<rev, turnstile, today, heap, usage, hits, counters, inflight,
               jar, nReq, n200, nVendor, last, overlap>>

rateVars == <<limiter, now, buckets, recs, qhits, passed, lastR>>

pureVars == <<pin, pout>>

---------------------------------------------------------------------------
(* Bounds of the model and configuration values *)

\* /generate requests that reach the route, over all identities
MaxReq == 5

\* /generate handlers suspended at the same time
MaxInflight == 2

\* the last calendar day of a behaviour (days are 0..MaxDay)
MaxDay == 1

\* env.FREE_DAILY_LIMIT as configured (the default is 5)
FREE_DAILY_LIMIT == 4

\* the hard-coded challenge threshold
FREE_CAPTCHA_AFTER == 3

\* entitlement validity, in days
COOKIE_DAYS == 30

\* client addresses (req.ip)
Ips == {"ip1"}

Days == 0..MaxDay

Keys == Ips \X Days

Revs == {"app", "part004", "part001", "part003", "part000"}

\* revisions whose usage map holds entry objects with a calls field
CallsRevs == {"app", "part004", "part001", "part003"}

---------------------------------------------------------------------------
(* Signed cookies and tokens *)

APP_SECRET == "APP_SECRET"

\* a signature that does not depend on the data
HmacOfKey(key, data) == <<"hmac", key, "">>

\* crypto.createHmac('sha256', key).update(data).digest(): a value only the
\* holder of key can compute for data
Hmac(key, data) == <<"hmac", key, data>>

\* res.cookie(name, val, {signed: true}) as cookie-parser signs it
SignedCookie(name, val) == [name |-> name, val |-> val, sig |-> Hmac(APP_SECRET, val)]

\* a cookie a client made up: it has no signature of the server's secret
ForgedCookie(name, val) == [name |-> name, val |-> val, sig |-> Hmac("guess", val)]

\* req.signedCookies[name]: the value when the signature verifies
signedCookies(cookies, name) ==
    IF \E c \in cookies : c.name = name /\ c.sig = Hmac(APP_SECRET, c.val)
    THEN (CHOOSE c \in cookies : c.name = name /\ c.sig = Hmac(APP_SECRET, c.val)).val
    ELSE "undefined"

\* part_000 b64url(JSON.stringify(payload)) and its decoding
b64url(payload) == <<"b64", payload>>

b64decode(data) == data[2]

\* part_000 signToken
signToken(payload) ==
    [data |-> b64url(payload), sig |-> Hmac(APP_SECRET, b64url(payload))]

\* verifyToken's null result, and the token of a request without the cookie
NullPayload == [plan |-> "null", exp |-> 0]

NoToken == [data |-> b64url(NullPayload), sig |-> <<"hmac", "", b64url(NullPayload)>>]

\* the signature part of a cookie value without a '.'
NoSig == <<"hmac", "", "">>

\* token.includes('.')
HasDot(token) == token.sig # NoSig

\* part_000 verifyToken without its expiry test
verifyTokenNoExpiry(token, clock) ==
    IF token = NoToken \/ ~HasDot(token) THEN NullPayload
    ELSE IF token.sig # Hmac(APP_SECRET, token.data) THEN NullPayload
    ELSE b64decode(token.data)

\* part_000 verifyToken: the payload, or null; clock is Date.now() in days
verifyToken(token, clock) ==
    IF token = NoToken \/ ~HasDot(token) THEN NullPayload
    ELSE IF token.sig # Hmac(APP_SECRET, token.data) THEN NullPayload
    ELSE IF b64decode(token.data).exp # 0 /\ clock > b64decode(token.data).exp
         THEN NullPayload
    ELSE b64decode(token.data)

\* part_000 readCookies(req)['ap_premium']
readCookie(cookies, name) ==
    IF \E c \in cookies : c.name = name
    THEN (CHOOSE c \in cookies : c.name = name).val
    ELSE NoToken

\* a Set-Cookie replaces the browser's cookie of the same name
StoreCookies(old, set) ==
    {c \in old : \A d \in set : d.name # c.name} \cup set

\* isPremium(req) of app.js, part_001, part_004
isPremium(cookies) == signedCookies(cookies, "ap_premium") = "1"

\* part_003 planOf(req)
planOf(cookies) ==
    IF signedCookies(cookies, "ap_plan") = "undefined" THEN "free"
    ELSE signedCookies(cookies, "ap_plan")

\* part_000 detectPlan: req.plan from the cookie and the x-plan header
detectPlan(cookies, hdr, clock) ==
    LET claim == verifyToken(readCookie(cookies, "ap_premium"), clock)
        p == IF claim.plan = "premium" THEN "premium" ELSE "free"
    IN IF hdr = "premium" THEN "premium" ELSE p

\* the tier a /generate request is given
TierOf(r, cookies, hdr, clock) ==
    CASE r \in {"app", "part004", "part001"} ->
            IF isPremium(cookies) THEN "premium" ELSE "free"
      [] r = "part003" -> planOf(cookies)
      [] r = "part000" -> detectPlan(cookies, hdr, clock)

\* the cookies a request may carry: none, the browser's, or made-up ones
ForgedSet(r) ==
    CASE r \in {"app", "part004", "part001"} -> {ForgedCookie("ap_premium", "1")}
      [] r = "part003" -> {ForgedCookie("ap_plan", "premium")}
      [] r = "part000" ->
            {[name |-> "ap_premium",
              val |-> [data |-> b64url([plan |-> "premium", exp |-> COOKIE_DAYS]),
                       sig |-> Hmac("guess", b64url([plan |-> "premium", exp |-> COOKIE_DAYS]))]]}

CookieChoices(r, j) == {{}, j, ForgedSet(r)}

\* the request carries an entitlement the server issued
Genuine(cookies, j) == cookies # {} /\ cookies = j

---------------------------------------------------------------------------
(* The /generate handler *)

\* the response record of a handler step; the fields a route does not use
\* keep these values
NoResp ==
    [route |-> "none", status |-> 0, ip |-> "none", key |-> <<"none", 0>>,
     tier |-> "free", genuine |-> FALSE, hdr |-> "none", pre |-> "none",
     k |-> 0, done0 |-> 0, calls0 |-> 0, vendor |-> FALSE, vres |-> "none",
     chal |-> "none", bodyOk |-> FALSE,
     setCookies |-> {}, session |-> "none", substatus |-> "none",
     price |-> "none", premium |-> FALSE, plan |-> "none"]

\* the response of /generate handler h: the status, with the request's inputs
\* and what the handler saw and did (history)
\*   pre    what the burst limiter and the browser filter made of the request
\*   k      /generate requests of the identity that reached the route before
\*   done0  of these, those answered 200 when this one arrived
\*   calls0 the identity's stored count when this one arrived
\*   chal   the verification service's answer ("none": it was not called)
\*   vendor the LLM vendor was called; vres: its result
Resp(h, status, vres) ==
    [NoResp EXCEPT !.route = "generate", !.status = status, !.ip = h.ip,
                   !.key = h.key, !.tier = h.tier, !.genuine = h.genuine,
                   !.hdr = h.hdr, !.pre = h.pre, !.k = h.k, !.done0 = h.done0,
                   !.calls0 = h.calls0, !.vendor = (h.pc = "vendor"),
                   !.vres = vres, !.chal = h.chal, !.bodyOk = h.bodyOk]

RECURSIVE SumOver(_, _)
SumOver(f, S) ==
    IF S = {} THEN 0
    ELSE LET x == CHOOSE y \in S : TRUE IN f[x] + SumOver(f, S \ {x})

TotalReqs == SumOver(nReq, Keys)

FreshEntry == [calls |-> 0, limitHits |-> 0]

\* usage.get(k) || { calls: 0, ... }: the entry a reference stands for
\* (reference 0 is an object of the handler's own, not in the map)
EntryOf(hp, ref) == IF ref = 0 THEN FreshEntry ELSE hp[ref]

\* the heap and the map after `usage.set(key, entry)` with entry changed by f
\* (a handler's own object enters the heap when it is stored)
StoreHeap(hp, ref, obj) ==
    IF ref = 0 THEN Append(hp, obj) ELSE [hp EXCEPT ![ref] = obj]

StoreRef(hp, ref) == IF ref = 0 THEN Len(hp) + 1 ELSE ref

\* the daily cap and the challenge do not apply to the tier
BypassNever(r, tier) == FALSE

Bypass(r, tier) == IF r = "part003" THEN tier # "free" ELSE tier = "premium"

\* a mutation: the cap is one too high
CapReachedLate(calls) == calls > FREE_DAILY_LIMIT

\* `entry.calls >= FREE_DAILY_LIMIT`
CapReached(calls) == calls >= FREE_DAILY_LIMIT

\* a mutation: the threshold is one too high
needCaptchaLate(calls) == calls > FREE_CAPTCHA_AFTER

\* needCaptcha(req) for a request that is not exempt
needCaptcha(calls) == calls >= FREE_CAPTCHA_AFTER

\* the pre-handler middleware answers 400 'browser required' / 'locale required'
BotFiltered(r, cookies, tier) ==
    CASE r = "app" -> signedCookies(cookies, "ap_premium") = "undefined"
      [] r = "part001" -> ~isPremium(cookies)
      [] r = "part003" -> tier = "free"
      [] OTHER -> FALSE

\* the body passes the route's schema (part_001 and part_003 have none)
Validates(r, bodyOk) == r \in {"part001", "part003"} \/ bodyOk

\* the responses of the verification service, and a thrown fetch
VerifyOutcomes == {"success", "failure", "nosuccess", "notjson", "network"}

\* a mutation: the catch lets the request through
verifyTurnstileOpen(outcome) == outcome \in {"success", "network", "notjson"}

\* verifyTurnstile(token, ip) once the endpoint has been called:
\* Boolean(j.success), and false when fetch or r.json() throws
verifyTurnstile(outcome) ==
    CASE outcome = "success" -> TRUE
      [] outcome = "failure" -> FALSE
      [] outcome = "nosuccess" -> FALSE
      [] outcome = "notjson" -> FALSE
      [] outcome = "network" -> FALSE

\* the handler answers and ends
Answer(h, fl, status, vres) ==
    /\ inflight' = fl
    /\ last' = Resp(h, status, vres)
    /\ UNCHANGED nVendor

\* body validation, then the call to the LLM vendor, where the handler suspends
ValidateAndCall(h, fl) ==
    IF Validates(rev, h.bodyOk)
    THEN /\ inflight' = fl (+) SetToBag({[h EXCEPT !.pc = "vendor"]})
         /\ nVendor' = [nVendor EXCEPT ![h.key] = IF h.tier = "free" THEN @ + 1 ELSE @]
         /\ UNCHANGED last
    ELSE Answer(h, fl, 400, "none")

\* a route handler whose 402 branch leaves counters.limit402 alone
RouteUsageUncounted(h0) ==
    LET key == h0.key
        \* part_001 calls incUsage(req, 0, 0) first: the entry exists from here on
        hp1 == IF rev = "part001" /\ usage[key] = 0 THEN Append(heap, FreshEntry) ELSE heap
        ref == IF rev = "part001" /\ usage[key] = 0 THEN Len(heap) + 1 ELSE usage[key]
        us1 == [usage EXCEPT ![key] = IF rev = "part001" THEN ref ELSE @]
        entry == EntryOf(hp1, ref)
        h == [h0 EXCEPT !.entry = ref, !.calls0 = entry.calls]
        counts == rev \in {"app", "part004", "part001"}
    IN /\ nReq' = [nReq EXCEPT ![key] = @ + 1]
       /\ UNCHANGED <<n200, hits>>
       /\ IF ~Bypass(rev, h.tier) /\ CapReached(entry.calls)
          THEN /\ counters' = [totalCalls |-> counters.totalCalls + (IF counts THEN 1 ELSE 0),
                               limit402 |-> counters.limit402]
               /\ heap' = StoreHeap(hp1, ref, [entry EXCEPT !.limitHits = @ + 1])
               /\ usage' = [us1 EXCEPT ![key] = StoreRef(hp1, ref)]
               /\ Answer(h, inflight, 402, "none")
          ELSE /\ counters' = [counters EXCEPT !.totalCalls = @ + (IF counts THEN 1 ELSE 0)]
               /\ heap' = hp1
               /\ usage' = us1
               /\ IF ~Bypass(rev, h.tier) /\ needCaptcha(entry.calls)
                  THEN IF turnstile
                       THEN /\ inflight' = inflight (+) SetToBag({[h EXCEPT !.pc = "captcha", !.chal = "pending"]})
                            /\ UNCHANGED <<nVendor, last>>
                       ELSE ValidateAndCall(h, inflight)
                  ELSE ValidateAndCall(h, inflight)

\* app.js / part_001 / part_003 / part_004: the route handler up to its first
\* await, after the burst limiter and the pre-handler middleware
RouteUsage(h0) ==
    LET key == h0.key
        \* part_001 calls incUsage(req, 0, 0) first: the entry exists from here on
        hp1 == IF rev = "part001" /\ usage[key] = 0 THEN Append(heap, FreshEntry) ELSE heap
        ref == IF rev = "part001" /\ usage[key] = 0 THEN Len(heap) + 1 ELSE usage[key]
        us1 == [usage EXCEPT ![key] = IF rev = "part001" THEN ref ELSE @]
        entry == EntryOf(hp1, ref)
        h == [h0 EXCEPT !.entry = ref, !.calls0 = entry.calls]
        counts == rev \in {"app", "part004", "part001"}
    IN /\ nReq' = [nReq EXCEPT ![key] = @ + 1]
       /\ UNCHANGED <<n200, hits>>
       /\ IF ~Bypass(rev, h.tier) /\ CapReached(entry.calls)
          THEN /\ counters' = [totalCalls |-> counters.totalCalls + (IF counts THEN 1 ELSE 0),
                               limit402 |-> counters.limit402 + (IF counts THEN 1 ELSE 0)]
               /\ heap' = StoreHeap(hp1, ref, [entry EXCEPT !.limitHits = @ + 1])
               /\ usage' = [us1 EXCEPT ![key] = StoreRef(hp1, ref)]
               /\ Answer(h, inflight, 402, "none")
          ELSE /\ counters' = [counters EXCEPT !.totalCalls = @ + (IF counts THEN 1 ELSE 0)]
               /\ heap' = hp1
               /\ usage' = us1
               /\ IF ~Bypass(rev, h.tier) /\ needCaptcha(entry.calls)
                  THEN IF turnstile
                       THEN /\ inflight' = inflight (+) SetToBag({[h EXCEPT !.pc = "captcha", !.chal = "pending"]})
                            /\ UNCHANGED <<nVendor, last>>
                       ELSE ValidateAndCall(h, inflight)
                  ELSE ValidateAndCall(h, inflight)

\* part_000: detectPlan, freeQuota, genLimiter, then the route handler up to
\* the vendor call
RouteQuota(h0, limited) ==
    LET key == h0.key
        n == hits[key]
        h == [h0 EXCEPT !.calls0 = n]
    IN /\ nReq' = [nReq EXCEPT ![key] = @ + 1]
       /\ UNCHANGED <<n200, heap, usage, counters>>
       /\ IF h.tier # "premium" /\ CapReached(n)
          THEN /\ UNCHANGED hits
               /\ Answer(h, inflight, 402, "none")
          ELSE /\ hits' = [hits EXCEPT ![key] = IF h.tier = "premium" THEN @ ELSE @ + 1]
               /\ IF limited
                  THEN Answer(h, inflight, 429, "none")
                  ELSE ValidateAndCall(h, inflight)

\* a /generate request arrives: everything up to the handler's first await.
\* pre: what the burst limiter and the browser filter make of the request
GenStart(ip, cookies, hdr, pre, bodyOk) ==
    /\ TotalReqs < MaxReq
    /\ BagCardinality(inflight) < MaxInflight
    /\ UNCHANGED <<rev, turnstile, today, jar>>
    /\ overlap' = (overlap \/ inflight # EmptyBag)
    /\ LET key == <<ip, today>>
           tier == TierOf(rev, cookies, hdr, today)
           h0 == [ip |-> ip, key |-> key, pc |-> "start", entry |-> 0, tier |-> tier,
                  genuine |-> Genuine(cookies, jar), hdr |-> hdr, pre |-> pre,
                  k |-> nReq[key], done0 |-> n200[key], calls0 |-> 0,
                  chal |-> "none", bodyOk |-> bodyOk]
       IN IF rev = "part000"
          THEN /\ pre # "bot"
               /\ RouteQuota(h0, pre = "limited")
          ELSE IF pre = "limited"
          THEN /\ Answer(h0, inflight, 429, "none")
               /\ UNCHANGED <<heap, usage, hits, counters, nReq, n200>>
          ELSE IF pre = "bot"
          THEN /\ BotFiltered(rev, cookies, tier)
               /\ Answer(h0, inflight, 400, "none")
               /\ UNCHANGED <<heap, usage, hits, counters, nReq, n200>>
          ELSE RouteUsage(h0)

\* a handler that validates the body before it looks at the challenge
GenCaptchaDoneBodyFirst(h, outcome) ==
    /\ BagIn(h, inflight)
    /\ h.pc = "captcha"
    /\ UNCHANGED <<rev, turnstile, today, jar, heap, usage, hits, counters, nReq, n200,
                   overlap>>
    /\ LET fl == inflight (-) SetToBag({h})
       IN IF ~Validates(rev, h.bodyOk)
          THEN Answer([h EXCEPT !.chal = outcome], fl, 400, "none")
          ELSE IF verifyTurnstile(outcome)
          THEN ValidateAndCall([h EXCEPT !.chal = outcome], fl)
          ELSE Answer([h EXCEPT !.chal = outcome], fl, 401, "none")

\* the verification service has answered (or the fetch has thrown)
GenCaptchaDone(h, outcome) ==
    /\ BagIn(h, inflight)
    /\ h.pc = "captcha"
    /\ UNCHANGED <<rev, turnstile, today, jar, heap, usage, hits, counters, nReq, n200,
                   overlap>>
    /\ LET fl == inflight (-) SetToBag({h})
       IN IF verifyTurnstile(outcome)
          THEN ValidateAndCall([h EXCEPT !.chal = outcome], fl)
          ELSE Answer([h EXCEPT !.chal = outcome], fl, 401, "none")

\* an incUsage that stores nothing
incUsageNone(h) == UNCHANGED <<heap, usage>>

\* incUsage(req, 1, cost) of app.js (key = req.ipKey) and of part_004 (the key
\* is made again from dayKey()); part_001 and part_003 add to the object the
\* handler holds and store it
incUsage(h) ==
    LET key == IF rev = "part004" THEN <<h.ip, today>> ELSE h.key
        ref == IF rev \in {"app", "part004"} THEN usage[key] ELSE h.entry
        entry == EntryOf(heap, ref)
    IN /\ heap' = StoreHeap(heap, ref, [entry EXCEPT !.calls = @ + 1])
       /\ usage' = [usage EXCEPT ![key] = StoreRef(heap, ref)]

\* a handler that calls the vendor a second time when the first call fails
GenVendorDoneRetry(h, result) ==
    /\ BagIn(h, inflight)
    /\ h.pc = "vendor"
    /\ UNCHANGED <<rev, turnstile, today, jar, hits, counters, nReq, overlap>>
    /\ IF result # "ok" /\ h.chal # "retried"
       THEN /\ inflight' = (inflight (-) SetToBag({h})) (+) SetToBag({[h EXCEPT !.chal = "retried"]})
            /\ nVendor' = [nVendor EXCEPT ![h.key] = @ + 1]
            /\ UNCHANGED <<heap, usage, n200, last>>
       ELSE /\ UNCHANGED <<heap, usage>>
            /\ n200' = [n200 EXCEPT ![h.key] = @ + (IF result = "ok" THEN 1 ELSE 0)]
            /\ Answer(h, inflight (-) SetToBag({h}), IF result = "ok" THEN 200 ELSE 500, result)

\* the LLM vendor call has returned or thrown
GenVendorDone(h, result) ==
    /\ BagIn(h, inflight)
    /\ h.pc = "vendor"
    /\ UNCHANGED <<rev, turnstile, today, jar, hits, counters, nReq, overlap>>
    /\ LET fl == inflight (-) SetToBag({h})
       IN CASE result = "ok" ->
                 /\ IF rev = "part000" THEN UNCHANGED <<heap, usage>> ELSE incUsage(h)
                 /\ n200' = [n200 EXCEPT ![h.key] = @ + 1]
                 /\ Answer(h, fl, 200, result)
            [] result = "rate_limited" ->
                 /\ UNCHANGED <<heap, usage, n200>>
                 /\ Answer(h, fl, IF rev = "part000" THEN 502 ELSE 429, result)
            [] result = "error" ->
                 /\ UNCHANGED <<heap, usage, n200>>
                 /\ Answer(h, fl, IF rev = "part000" THEN 502 ELSE 500, result)

---------------------------------------------------------------------------
(* /claim and /me *)

SubStatuses == {"trialing", "active", "past_due", "canceled", "incomplete"}

\* what stripe.checkout.sessions.retrieve gives: it throws, or returns a
\* session; a session has a subscription only when it is a completed
\* subscription-mode session
Sessions ==
    {[lookup |-> "throws", mode |-> "none", sstatus |-> "none",
      substatus |-> "none", price |-> "none"]}
    \cup {[lookup |-> "ok", mode |-> "subscription", sstatus |-> "open",
           substatus |-> "none", price |-> "none"],
          [lookup |-> "ok", mode |-> "payment", sstatus |-> "complete",
           substatus |-> "none", price |-> "none"]}
    \cup {[lookup |-> "ok", mode |-> "subscription", sstatus |-> "complete",
           substatus |-> st, price |-> p] :
            st \in SubStatuses, p \in {"standard", "premium"}}

\* a mutation: a canceled subscription counts as active
ClaimActiveLoose(substatus) == substatus \in {"trialing", "active", "past_due", "canceled"}

\* ['trialing', 'active', 'past_due'].includes(subscription.status)
ClaimActive(substatus) == substatus \in {"trialing", "active", "past_due"}

\* a mutation: the cookie is set without `signed: true`
ClaimCookiesUnsigned(r, price, clock) ==
    {[name |-> "ap_premium", val |-> "1", sig |-> <<"hmac", "", "1">>],
     [name |-> "ap_plan", val |-> price, sig |-> <<"hmac", "", price>>]}

\* the cookies a successful /claim sets
ClaimCookies(r, price, clock) ==
    CASE r \in {"app", "part004", "part001"} -> {SignedCookie("ap_premium", "1")}
      [] r = "part003" ->
            IF price = "premium"
            THEN {SignedCookie("ap_plan", "premium"), SignedCookie("ap_premium", "1")}
            ELSE {SignedCookie("ap_plan", "standard")}
      [] r = "part000" ->
            {[name |-> "ap_premium",
              val |-> signToken([plan |-> "premium", exp |-> clock + COOKIE_DAYS])]}

\* the status of a /claim whose session was retrieved
ClaimStatus(r, s) ==
    IF s.lookup = "throws" THEN 500
    ELSE IF r = "part000" /\ (s.mode # "subscription" \/ s.sstatus # "complete") THEN 400
    ELSE IF ~ClaimActive(s.substatus) THEN (IF r = "part000" THEN 400 ELSE 402)
    ELSE 200

\* POST /claim
Claim(hasId, s) ==
    /\ UNCHANGED <<overlap, rev, turnstile, today, heap, usage, hits, counters, inflight,
                   nReq, n200, nVendor>>
    /\ LET status == IF hasId THEN ClaimStatus(rev, s) ELSE 400
           set == IF status = 200 THEN ClaimCookies(rev, s.price, today) ELSE {}
       IN /\ jar' = StoreCookies(jar, set)
          /\ last' = [NoResp EXCEPT !.route = "claim", !.status = status,
                                    !.setCookies = set,
                                    !.session = IF hasId THEN s.lookup ELSE "none",
                                    !.substatus = IF hasId THEN s.substatus ELSE "none",
                                    !.price = IF hasId THEN s.price ELSE "none"]

\* the request carries the cookies of the successful /claim answered just before
AfterClaim(cookies) ==
    last.route = "claim" /\ last.status = 200 /\ last.setCookies \subseteq cookies

\* GET /me (part_000 has no such route).  In the response record, setCookies
\* are the cookies the request carried, and substatus and price are those of
\* the /claim answered just before, when the request carries its cookies
Me(cookies) ==
    /\ rev # "part000"
    /\ UNCHANGED <<overlap, rev, turnstile, today, heap, usage, hits, counters, inflight,
                   jar, nReq, n200, nVendor>>
    /\ last' = [NoResp EXCEPT !.route = "me", !.status = 200,
                              !.setCookies = cookies,
                              !.genuine = Genuine(cookies, jar),
                              !.substatus = IF AfterClaim(cookies) THEN last.substatus ELSE "none",
                              !.price = IF AfterClaim(cookies) THEN last.price ELSE "none",
                              !.plan = IF rev = "part003" THEN planOf(cookies) ELSE "none",
                              !.premium = IF rev = "part003" THEN planOf(cookies) = "premium"
                                          ELSE isPremium(cookies)]

---------------------------------------------------------------------------
(* The quota specification: /generate, /claim and /me of one revision *)

\* no request has gone through the burst limiter yet
NoDecision ==
    [ip |-> "none", tier |-> "free", out |-> "none", at |-> 0, over |-> FALSE,
     before |-> 0]

RateIdle ==
    /\ limiter = "none"
    /\ now = 0
    /\ buckets = [ip \in Ips |-> <<>>]
    /\ recs = [ip \in Ips |-> [start |-> -1, hits |-> 0]]
    /\ qhits = [ip \in Ips |-> 0]
    /\ passed = [ip \in Ips |-> <<>>]
    /\ lastR = NoDecision
    /\ pin = [kind |-> "none"]
    /\ pout = [kind |-> "none"]

Init ==
    /\ rev \in Revs
    /\ turnstile \in (IF rev = "part000" THEN {FALSE} ELSE BOOLEAN)
    /\ today = 0
    /\ heap = <<>>
    /\ usage = [k \in Keys |-> 0]
    /\ hits = [k \in Keys |-> 0]
    /\ counters = [totalCalls |-> 0, limit402 |-> 0]
    /\ inflight = EmptyBag
    /\ jar = {}
    /\ nReq = [k \in Keys |-> 0]
    /\ n200 = [k \in Keys |-> 0]
    /\ nVendor = [k \in Keys |-> 0]
    /\ last = NoResp
    /\ overlap = FALSE
    /\ RateIdle

\* the x-plan header is read by part_000 only
Headers == IF rev = "part000" THEN {"none", "premium"} ELSE {"none"}

PreChoices == {"pass", "limited", "bot"}

VendorResults == {"ok", "rate_limited", "error"}

\* /generate requests of clients without an entitlement, handlers interleaved
Next ==
    \/ \E ip \in Ips, cookies \in {{}, ForgedSet(rev)}, hdr \in {"none"},
          pre \in PreChoices, bodyOk \in BOOLEAN :
            GenStart(ip, cookies, hdr, pre, bodyOk) /\ UNCHANGED <<rateVars, pureVars>>
    \/ \E h \in BagToSet(inflight), outcome \in VerifyOutcomes :
            GenCaptchaDone(h, outcome) /\ UNCHANGED <<rateVars, pureVars>>
    \/ \E h \in BagToSet(inflight), result \in VendorResults :
            GenVendorDone(h, result) /\ UNCHANGED <<rateVars, pureVars>>

Spec == Init /\ [][Next]_vars

---------------------------------------------------------------------------
(* The entitlement specification: /claim, /me, and /generate handled one *)
(* request after another                                                  *)

NextClaim ==
    \/ \E ip \in Ips, cookies \in CookieChoices(rev, jar), hdr \in Headers,
          pre \in PreChoices, bodyOk \in BOOLEAN :
            /\ inflight = EmptyBag
            /\ GenStart(ip, cookies, hdr, pre, bodyOk)
            /\ UNCHANGED <<rateVars, pureVars>>
    \/ \E h \in BagToSet(inflight), outcome \in VerifyOutcomes :
            GenCaptchaDone(h, outcome) /\ UNCHANGED <<rateVars, pureVars>>
    \/ \E h \in BagToSet(inflight), result \in VendorResults :
            GenVendorDone(h, result) /\ UNCHANGED <<rateVars, pureVars>>
    \/ \E hasId \in BOOLEAN, s \in Sessions :
            Claim(hasId, s) /\ UNCHANGED <<rateVars, pureVars>>
    \/ \E cookies \in CookieChoices(rev, jar) :
            Me(cookies) /\ UNCHANGED <<rateVars, pureVars>>

SpecClaim == Init /\ [][NextClaim]_vars

---------------------------------------------------------------------------
(* Claims about the daily quota and the challenge (specification Spec) *)

IsGen == last.route = "generate"

\* the verification service did not confirm the token
VerifyFailures == {"failure", "nosuccess", "notjson", "network"}

C2_VendorCallsCapped ==
    \A key \in Keys : n200[key] <= FREE_DAILY_LIMIT /\ n200[key] <= nVendor[key]

\* C3: no lost update: once all handlers have finished, the identity's stored
\* calls equals the number of its requests answered 200.
C3_NoLostUpdate ==
    (rev \in CallsRevs /\ inflight = EmptyBag) =>
        \A key \in Keys : EntryOf(heap, usage[key]).calls = n200[key]

C5_FailClosed ==
    (IsGen /\ last.chal \in VerifyFailures) => (last.status = 401 /\ ~last.vendor)

C5_Witness == IsGen /\ last.chal = "network" /\ last.status = 401

---------------------------------------------------------------------------
(* Claims about the entitlement (specification SpecClaim) *)

\* C6: a request is treated as premium only if it carries an entitlement
\* cookie that a successful /claim issued.
C6_PremiumOnlyByClaim == (IsGen /\ Bypass(rev, last.tier)) => last.genuine

\* C7: /claim sets the entitlement cookie exactly when the retrieved session
\* has a subscription whose status is trialing, active or past_due; in every
\* other case (other status, no subscription, lookup failure) the response is
\* a failure status and no cookie is set.
C7_ClaimIff ==
    (last.route = "claim" /\ last.session # "none") =>
        /\ last.setCookies # {} <=>
              (last.session = "ok" /\ last.substatus \in {"trialing", "active", "past_due"})
        /\ last.setCookies # {} => last.status = 200
        /\ last.setCookies = {} => last.status >= 400

C7_Witness ==
    /\ last.route = "claim" /\ last.session = "ok" /\ last.substatus = "canceled"
    /\ last.status >= 400 /\ last.setCookies = {} /\ jar # {}

\* C8 as claimed: after a /claim that succeeded for an active subscription,
\* the /me request carrying the cookies it set reports premium: true.
C8_Original == (last.route = "me" /\ last.substatus = "active") => last.premium

\* C8 amended: it reports premium: true, except in part_003 when the
\* subscription's price is not the premium price: there /me reports plan
\* "standard" and premium: false.
C8_MeAfterClaim ==
    (last.route = "me" /\ last.substatus = "active") =>
        IF rev = "part003" /\ last.price # "premium"
        THEN ~last.premium /\ last.plan = "standard"
        ELSE last.premium

C8_Witness ==
    /\ last.route = "me" /\ last.substatus = "active" /\ last.price = "standard"
    /\ last.premium /\ last.genuine

\* C9: a /generate request carrying a valid premium entitlement is never
\* answered 402 or 401, whatever the stored count of its identity and
\* whatever challenge token it carries: the verification service is not
\* even called.
C9_PremiumBypass ==
    (IsGen /\ last.genuine /\ last.tier = "premium") =>
        (last.status \notin {401, 402} /\ last.chal = "none")

C9_Witness ==
    /\ IsGen /\ last.genuine /\ last.tier = "premium" /\ last.pre = "pass"
    /\ last.calls0 >= FREE_DAILY_LIMIT /\ last.status = 200

---------------------------------------------------------------------------
(* The burst limiter specification: the limiter middleware of /generate,  *)
(* with time                                                              *)

\* requests a window admits (the default is 10), window length in abstract
\* milliseconds (the default is 60000), the last instant looked at, and the
\* rejected requests followed within one fixed window
RATE_LIMIT_MAX == 2

RATE_LIMIT_WINDOW_MS == 3

MaxTime == 7

MaxOver == 2

Tiers == {"free", "premium"}

Limiters == {"list", "window", "quota"}

\* the times in the history ps that lie in [from, now]
PassesSince(ps, from) == SelectSeq(ps, LAMBDA t : t >= from)

\* a mutation: a timestamp exactly one window old no longer counts
FreshStrict(arr, clock) == SelectSeq(arr, LAMBDA t : t > clock - RATE_LIMIT_WINDOW_MS)

\* index.js: fresh = arr.filter(t => t >= windowStart)
Fresh(arr, clock) == SelectSeq(arr, LAMBDA t : t >= clock - RATE_LIMIT_WINDOW_MS)

\* the history of the requests the limiter let pass, oldest dropped
Remember(ps, clock) == Append(PassesSince(ps, clock - RATE_LIMIT_WINDOW_MS), clock)

Decision(ip, tier, out, ps, before) ==
    [ip |-> ip, tier |-> tier, out |-> out, at |-> now,
     over |-> Len(PassesSince(ps, now - RATE_LIMIT_WINDOW_MS)) >= RATE_LIMIT_MAX,
     before |-> before]

\* a limiter that also stores the timestamp of a rejected request
RateListCountAll(ip, tier) ==
    LET fresh == Fresh(buckets[ip], now)
    IN /\ Len(fresh) <= RATE_LIMIT_MAX + MaxOver
       /\ buckets' = [buckets EXCEPT ![ip] = Append(fresh, now)]
       /\ IF Len(fresh) >= RATE_LIMIT_MAX
          THEN /\ lastR' = Decision(ip, tier, "429", passed[ip], Len(fresh))
               /\ UNCHANGED passed
          ELSE /\ passed' = [passed EXCEPT ![ip] = Remember(@, now)]
               /\ lastR' = Decision(ip, tier, "next", passed[ip], Len(fresh))

\* index.js rateLimit: the list of the timestamps of the admitted requests
RateList(ip, tier) ==
    LET fresh == Fresh(buckets[ip], now)
    IN IF Len(fresh) >= RATE_LIMIT_MAX
       THEN /\ lastR' = Decision(ip, tier, "429", passed[ip], Len(fresh))
            /\ UNCHANGED <<buckets, passed>>
       ELSE /\ buckets' = [buckets EXCEPT ![ip] = Append(fresh, now)]
            /\ passed' = [passed EXCEPT ![ip] = Remember(@, now)]
            /\ lastR' = Decision(ip, tier, "next", passed[ip], Len(fresh))

\* a limiter whose rejections restart the window
RateWindowSliding(ip, tier) ==
    LET old == recs[ip]
        rec0 == IF old.start < 0 THEN [start |-> now, hits |-> 0] ELSE old
        rec1 == IF now - rec0.start > RATE_LIMIT_WINDOW_MS
                THEN [start |-> now, hits |-> 0] ELSE rec0
        rec == [rec1 EXCEPT !.hits = @ + 1]
    IN /\ rec.hits <= RATE_LIMIT_MAX + MaxOver
       /\ IF rec.hits > RATE_LIMIT_MAX
          THEN /\ recs' = [recs EXCEPT ![ip] = [rec EXCEPT !.start = now]]
               /\ lastR' = Decision(ip, tier, "429", passed[ip], rec1.hits)
               /\ UNCHANGED passed
          ELSE /\ recs' = [recs EXCEPT ![ip] = rec]
               /\ passed' = [passed EXCEPT ![ip] = Remember(@, now)]
               /\ lastR' = Decision(ip, tier, "next", passed[ip], rec1.hits)

\* app.js rateLimit: one record [start, hits] per IP
RateWindow(ip, tier) ==
    LET old == recs[ip]
        rec0 == IF old.start < 0 THEN [start |-> now, hits |-> 0] ELSE old
        rec1 == IF now - rec0.start > RATE_LIMIT_WINDOW_MS
                THEN [start |-> now, hits |-> 0] ELSE rec0
        rec == [rec1 EXCEPT !.hits = @ + 1]
    IN /\ rec.hits <= RATE_LIMIT_MAX + MaxOver
       /\ recs' = [recs EXCEPT ![ip] = rec]
       /\ IF rec.hits > RATE_LIMIT_MAX
          THEN /\ lastR' = Decision(ip, tier, "429", passed[ip], rec1.hits)
               /\ UNCHANGED passed
          ELSE /\ passed' = [passed EXCEPT ![ip] = Remember(@, now)]
               /\ lastR' = Decision(ip, tier, "next", passed[ip], rec1.hits)

\* part_000 /generate: detectPlan, freeQuota, genLimiter; genLimiter is the
\* express-rate-limit package, whose verdict is an input here
RateQuota(ip, tier, over) ==
    LET n == qhits[ip]
        d == [ip |-> ip, tier |-> tier, out |-> "next", at |-> now, over |-> over,
              before |-> n]
    IN IF tier # "premium" /\ n >= FREE_DAILY_LIMIT
       THEN /\ lastR' = [d EXCEPT !.out = "402"]
            /\ UNCHANGED qhits
       ELSE /\ qhits' = [qhits EXCEPT ![ip] = IF tier = "premium" THEN @ ELSE @ + 1]
            /\ lastR' = [d EXCEPT !.out = IF over THEN "429" ELSE "next"]

RateRequest(ip, tier, over) ==
    /\ UNCHANGED <<quotaVars, pureVars, limiter, now>>
    /\ CASE limiter = "list" -> ~over /\ RateList(ip, tier) /\ UNCHANGED <<recs, qhits>>
         [] limiter = "window" -> ~over /\ RateWindow(ip, tier) /\ UNCHANGED <<buckets, qhits>>
         [] limiter = "quota" -> RateQuota(ip, tier, over) /\ UNCHANGED <<buckets, recs, passed>>

\* Date.now() advances
Tick ==
    /\ now < MaxTime
    /\ now' = now + 1
    /\ UNCHANGED <<quotaVars, pureVars, limiter, buckets, recs, qhits, passed, lastR>>

InitRate ==
    /\ limiter \in Limiters
    /\ rev = (CASE limiter = "list" -> "index" [] limiter = "window" -> "appB"
                [] limiter = "quota" -> "part000")
    /\ turnstile = FALSE
    /\ today = 0
    /\ heap = <<>>
    /\ usage = [k \in Keys |-> 0]
    /\ hits = [k \in Keys |-> 0]
    /\ counters = [totalCalls |-> 0, limit402 |-> 0]
    /\ inflight = EmptyBag
    /\ jar = {}
    /\ nReq = [k \in Keys |-> 0]
    /\ n200 = [k \in Keys |-> 0]
    /\ nVendor = [k \in Keys |-> 0]
    /\ last = NoResp
    /\ overlap = FALSE
    /\ now = 0
    /\ buckets = [ip \in Ips |-> <<>>]
    /\ recs = [ip \in Ips |-> [start |-> -1, hits |-> 0]]
    /\ qhits = [ip \in Ips |-> 0]
    /\ passed = [ip \in Ips |-> <<>>]
    /\ lastR = NoDecision
    /\ pin = [kind |-> "none"]
    /\ pout = [kind |-> "none"]

NextRate ==
    \/ \E ip \in Ips, tier \in Tiers, over \in BOOLEAN : RateRequest(ip, tier, over)
    \/ Tick

SpecRate == InitRate /\ [][NextRate]_vars

\* C10 as claimed: in every interval of length RATE_LIMIT_WINDOW_MS (here the
\* last RATE_LIMIT_WINDOW_MS instants) at most RATE_LIMIT_MAX requests of an IP
\* pass the limiter, and a request beyond that count is answered 429.
C10_Original ==
    /\ \A ip \in Ips :
          Len(PassesSince(passed[ip], now - RATE_LIMIT_WINDOW_MS + 1)) <= RATE_LIMIT_MAX
    /\ lastR.over => lastR.out = "429"

\* C10 amended: the timestamp-list limiter admits at most RATE_LIMIT_MAX
\* requests of an IP in every interval of length RATE_LIMIT_WINDOW_MS and
\* answers 429 beyond that, whatever the tier; the fixed-window counter admits
\* at most RATE_LIMIT_MAX requests after the start of the IP's current window
\* and answers 429 exactly when the window's count exceeds RATE_LIMIT_MAX, so
\* an interval that spans a window reset admits up to twice RATE_LIMIT_MAX;
\* in part_000 the daily quota runs before the limiter, so a free request of
\* an IP at its daily quota is answered 402, not 429, and premium requests
\* and free requests below the quota are answered 429 when over the limit.
C10_BurstLimiter ==
    /\ limiter = "list" =>
          /\ \A ip \in Ips :
                /\ Len(PassesSince(passed[ip], now - RATE_LIMIT_WINDOW_MS)) <= RATE_LIMIT_MAX
                /\ Len(buckets[ip]) <= RATE_LIMIT_MAX
          /\ lastR.out = "429" <=> lastR.over
    /\ limiter = "window" =>
          /\ \A ip \in Ips :
                /\ Len(PassesSince(passed[ip], recs[ip].start)) <= RATE_LIMIT_MAX
                /\ Len(PassesSince(passed[ip], now - RATE_LIMIT_WINDOW_MS))
                      <= 2 * RATE_LIMIT_MAX
          /\ lastR.out = "429" <=> lastR.before >= RATE_LIMIT_MAX
    /\ limiter = "quota" =>
          /\ lastR.out = "402" <=>
                (lastR.ip # "none" /\ lastR.tier = "free" /\ lastR.before >= FREE_DAILY_LIMIT)
          /\ lastR.out = "429" <=> (lastR.over /\ lastR.out # "402")

C10_Witness ==
    /\ limiter = "list" /\ lastR.out = "429" /\ lastR.tier = "premium"
    /\ lastR.at = RATE_LIMIT_WINDOW_MS
    /\ Len(PassesSince(passed[lastR.ip], 0)) = RATE_LIMIT_MAX

---------------------------------------------------------------------------
(* The request body specification: what /generate makes of a request body *)
(* once the quota and challenge checks have let the request through       *)

BodyRevs == {"index", "appB", "app", "part004", "part001", "part003", "part000"}

\* a JavaScript value of `variants`: absent, an integer v, the fraction
\* v + 1/2, the numeric string "v", a string that is no number, or NaN
Val(t, v) == [t |-> t, v |-> v]

Absent == Val("absent", 0)

NaN == Val("nan", 0)

VariantInputs ==
    {Absent, Val("word", 0), Val("str", 3)}
        \cup {Val("int", v) : v \in -1..6}
        \cup {Val("frac", v) : v \in {-2, 0, 2, 5}}

\* lengths of jobPost / job and of skills; -1: the field is absent
JobLens == {-1, 0, 1, 9, 10, 19, 20, 39, 40, 41}

SkillsLens == {-1, 0, 1, 2, 19, 20}

\* the plans a request can have in revision r
TiersOf(r) ==
    CASE r = "index" -> {"free"}
      [] r = "appB" -> {"standard", "premium"}
      [] r = "part003" -> {"free", "standard", "premium"}
      [] OTHER -> {"free", "premium"}

Bodies ==
    [job : JobLens, skills : SkillsLens, cut : {0, 1}, variants : VariantInputs,
     rest : BOOLEAN]

\* x || 1
OrOne(x) ==
    IF x.t \in {"absent", "nan"} \/ (x.t = "int" /\ x.v = 0) THEN Val("int", 1) ELSE x

\* Number(x)
Number(x) ==
    CASE x.t \in {"int", "frac"} -> x
      [] x.t = "str" -> Val("int", x.v)
      [] OTHER -> NaN

\* parseInt(x, 10): a fraction is cut towards zero
parseInt(x) ==
    CASE x.t = "int" -> x
      [] x.t = "str" -> Val("int", x.v)
      [] x.t = "frac" -> Val("int", IF x.v >= 0 THEN x.v ELSE x.v + 1)
      [] OTHER -> NaN

\* Math.min(c, x) and Math.max(c, x) for an integer c
MathMin(c, x) ==
    CASE x.t = "nan" -> NaN
      [] x.t = "int" -> Val("int", IF x.v < c THEN x.v ELSE c)
      [] x.t = "frac" -> IF x.v < c THEN x ELSE Val("int", c)
      [] OTHER -> NaN

MathMax(c, x) ==
    CASE x.t = "nan" -> NaN
      [] x.t = "int" -> Val("int", IF x.v > c THEN x.v ELSE c)
      [] x.t = "frac" -> IF x.v >= c THEN x ELSE Val("int", c)
      [] OTHER -> NaN

\* z.number().int().min(1).max(3).default(1); NaN stands for a parse error
ZodVariants(x) ==
    CASE x.t = "absent" -> Val("int", 1)
      [] x.t = "int" /\ x.v >= 1 /\ x.v <= 3 -> x
      [] OTHER -> NaN

\* the shortest job text and skills text that revision r accepts
\* (part_001 and part_003 check nothing: 0 accepts the absent field too)
MinJob(r) ==
    CASE r = "appB" -> 40
      [] r \in {"app", "part004"} -> 20
      [] r = "part000" -> 10
      [] r = "index" -> 1
      [] OTHER -> -1

MinSkills(r) ==
    CASE r = "appB" -> 20
      [] r \in {"app", "part004", "part000"} -> 2
      [] r = "index" -> 1
      [] OTHER -> -1

\* appB: clampLen(stripTags(String(job || '').trim()), 4000)
CleanLen(r, len, cut) ==
    IF r = "appB" THEN (IF len - cut > 0 THEN len - cut ELSE 0) ELSE len

\* the request passes the checks made before the vendor call
BodyAccepted(r, b) ==
    /\ CleanLen(r, b.job, b.cut) >= MinJob(r)
    /\ CleanLen(r, b.skills, 0) >= MinSkills(r)
    /\ r \in {"app", "part004", "part000"} =>
          (b.rest /\ ZodVariants(b.variants).t = "int")

\* the number of completions asked of the vendor
VariantsAsked(r, tier, x) ==
    CASE r = "index" -> MathMax(1, MathMin(5, OrOne(parseInt(x))))
      [] r = "appB" ->
            MathMax(1, MathMin(IF tier = "premium" THEN 5 ELSE 3, OrOne(parseInt(x))))
      [] r = "part001" ->
            IF tier = "premium" THEN MathMax(1, MathMin(3, Number(OrOne(x))))
            ELSE Val("int", 1)
      [] r = "part003" ->
            MathMax(1, MathMin(IF tier = "premium" THEN 5 ELSE IF tier = "standard" THEN 3 ELSE 1,
                               Number(OrOne(x))))
      [] r = "part000" ->
            IF tier = "premium" THEN MathMin(3, ZodVariants(x)) ELSE Val("int", 1)
      [] OTHER -> IF tier = "premium" THEN ZodVariants(x) ELSE Val("int", 1)

\* /generate from the body checks to the vendor request
HandleBody ==
    /\ pin.kind = "body" /\ pout.kind = "none"
    /\ pout' = IF BodyAccepted(pin.rev, pin.body)
               THEN [kind |-> "body", status |-> 0, vendor |-> TRUE,
                     n |-> VariantsAsked(pin.rev, pin.tier, pin.body.variants)]
               ELSE [kind |-> "body", status |-> 400, vendor |-> FALSE, n |-> Absent]
    /\ UNCHANGED <<quotaVars, rateVars, pin>>

\* no request has reached the server: the state around a step studied alone
IdleServer ==
    /\ rev = "none"
    /\ turnstile = FALSE
    /\ today = 0
    /\ heap = <<>>
    /\ usage = [k \in Keys |-> 0]
    /\ hits = [k \in Keys |-> 0]
    /\ counters = [totalCalls |-> 0, limit402 |-> 0]
    /\ inflight = EmptyBag
    /\ jar = {}
    /\ nReq = [k \in Keys |-> 0]
    /\ n200 = [k \in Keys |-> 0]
    /\ nVendor = [k \in Keys |-> 0]
    /\ last = NoResp
    /\ overlap = FALSE
    /\ limiter = "none"
    /\ now = 0
    /\ buckets = [ip \in Ips |-> <<>>]
    /\ recs = [ip \in Ips |-> [start |-> -1, hits |-> 0]]
    /\ qhits = [ip \in Ips |-> 0]
    /\ passed = [ip \in Ips |-> <<>>]
    /\ lastR = NoDecision

InitBody ==
    /\ IdleServer
    /\ \E r \in BodyRevs, b \in Bodies :
          \E tier \in TiersOf(r) :
             pin = [kind |-> "body", rev |-> r, tier |-> tier, body |-> b]
    /\ pout = [kind |-> "none"]

SpecBody == InitBody /\ [][HandleBody]_vars

\* the length below which the text is too short for revision r; a revision
\* without a minimum is held to the empty and the absent text only
TooShort(r, b) ==
    \/ b.job < (IF MinJob(r) > 1 THEN MinJob(r) ELSE 1)
    \/ b.skills < (IF MinSkills(r) > 1 THEN MinSkills(r) ELSE 1)

\* C11: a /generate request whose job-post or skills text is shorter than
\* the minimum length (empty and absent included) is answered 400 and makes
\* no vendor call.
C11_ShortInputRejected ==
    (pout.kind = "body" /\ TooShort(pin.rev, pin.body)) =>
        (pout.status = 400 /\ ~pout.vendor)

\* the most completions the tier may ask for
CapOfTier(r, tier) ==
    CASE tier = "free" -> 1
      [] tier = "premium" /\ r \in {"appB", "part003"} -> 5
      [] OTHER -> 3

\* C12: the number n of completions asked of the vendor is an integer with
\* 1 <= n <= cap(tier), cap(free) = 1 and cap of a paid tier 3 or 5, also
\* when `variants` is absent, zero, negative, fractional or not a number.
C12_VariantsCapped ==
    (pout.kind = "body" /\ pout.vendor) =>
        /\ pout.n.t = "int"
        /\ pout.n.v >= 1
        /\ pin.rev # "index" => pout.n.v <= CapOfTier(pin.rev, pin.tier)

---------------------------------------------------------------------------
(* The LLM text specification: what /generate makes of the text the LLM  *)
(* returned (index.js and app.js 203-242 only; the later revisions pass  *)
(* the completions on as they are)                                       *)

\* A text is a sequence of tokens: "F" the triple backtick, "J" the word
\* json, "W" white space, "T" prose without braces, "{" and "}", "N" a JSON
\* number, "A" a JSON array of numbers, "[" and "]" around an array of
\* objects, and the members of a JSON object:
\* "E0", "E1", "E2", "Eb" an emails array (empty, one entry, two entries,
\* one valid and one invalid entry), "En" emails that is no array, "K"
\* another key, "S" a subject and a body.
Members == {"E0", "E1", "E2", "Eb", "En", "K", "S"}

TextRevs == {"index", "appB"}

\* entries asked for (count of index.js)
MaxCount == 2

\* segments a text is made of
MaxSegs == 2

Segments ==
    { <<"T">>, <<"W">>, <<"N">>, <<"A">>, <<"F">>, <<"{">>, <<"}">>,
      <<"{", "E2", "}">>, <<"{", "K", "}">>, <<"{", "Eb", "}">>, <<"{", "E0", "}">>,
      <<"{", "En", "}">>, <<"{", "S", "}">>,
      <<"F", "J", "W", "{", "E2", "}", "W", "F">>,
      <<"F", "{", "E1", "}", "F">>,
      <<"F", "T", "{", "E2", "}", "T", "F">>,
      <<"F", "T", "F">>,
      <<"F", "{", "K", "}", "F">>,
      <<"[", "{", "S", "}", "]">> }

RECURSIVE Concat(_)
Concat(segs) == IF segs = <<>> THEN <<>> ELSE Head(segs) \o Concat(Tail(segs))

Texts == {Concat(segs) : segs \in UNION {[1..n -> Segments] : n \in 0..MaxSegs}}

\* an entry of an emails array; body and subject are texts
Entry(subject, body) == [subject |-> subject, body |-> body]

Ok1 == Entry(<<"s1">>, <<"b1">>)

Ok2 == Entry(<<"s2">>, <<"b2">>)

Bad == Entry(<<"s3">>, <<>>)

Single == Entry(<<"s">>, <<"b">>)

IsValidEntry(e) == e # Bad

\* the array an emails member holds
ArrOf(m) ==
    CASE m = "E1" -> <<Ok1>>
      [] m = "E2" -> <<Ok1, Ok2>>
      [] m = "Eb" -> <<Ok1, Bad>>
      [] OTHER -> <<>>

IsArrayMember(m) == m \in {"E0", "E1", "E2", "Eb"}

\* indexOf and lastIndexOf, 0 when the token is not there
IndexOf(seq, tok) ==
    IF \E i \in 1..Len(seq) : seq[i] = tok
    THEN CHOOSE i \in 1..Len(seq) : seq[i] = tok /\ \A j \in 1..(i - 1) : seq[j] # tok
    ELSE 0

LastIndexOf(seq, tok) ==
    IF \E i \in 1..Len(seq) : seq[i] = tok
    THEN CHOOSE i \in 1..Len(seq) : seq[i] = tok /\ \A j \in (i + 1)..Len(seq) : seq[j] # tok
    ELSE 0

RECURSIVE TrimLeft(_)
TrimLeft(seq) ==
    IF seq # <<>> /\ Head(seq) = "W" THEN TrimLeft(Tail(seq)) ELSE seq

RECURSIVE TrimRight(_)
TrimRight(seq) ==
    IF seq # <<>> /\ seq[Len(seq)] = "W"
    THEN TrimRight(SubSeq(seq, 1, Len(seq) - 1)) ELSE seq

\* the value JSON.parse makes of a text, NoJson when it throws
NoJson == [ok |-> FALSE, type |-> "none", emails |-> "none", single |-> FALSE]

IsObjectText(t) ==
    /\ Len(t) >= 2 /\ t[1] = "{" /\ t[Len(t)] = "}"
    /\ \A i \in 2..(Len(t) - 1) : t[i] \in Members

JsonParse(seq) ==
    LET t == SelectSeq(seq, LAMBDA x : x # "W")
        n == Len(t)
    IN IF t = <<"N">> THEN [NoJson EXCEPT !.ok = TRUE, !.type = "number"]
       ELSE IF t = <<"A">> THEN [NoJson EXCEPT !.ok = TRUE, !.type = "array"]
       ELSE IF n >= 2 /\ t[1] = "[" /\ t[n] = "]" /\ IsObjectText(SubSeq(t, 2, n - 1))
       THEN [NoJson EXCEPT !.ok = TRUE, !.type = "array"]
       ELSE IF IsObjectText(t)
       THEN LET ms == {t[i] : i \in 2..(n - 1)}
                es == {m \in ms : m \in {"E0", "E1", "E2", "Eb", "En"}}
            IN [ok |-> TRUE, type |-> "object",
                emails |-> IF es = {} THEN "none"
                           ELSE CHOOSE m \in es :
                                   \A o \in es : LastIndexOf(t, o) <= LastIndexOf(t, m),
                single |-> "S" \in ms]
       ELSE NoJson

\* text.match(/```(?:json)?\s*([\s\S]*?)\s*```/i): the content of the first
\* fenced block, or no match
HasFence(text) == IndexOf(text, "F") # LastIndexOf(text, "F")

FenceContent(text) ==
    LET i == IndexOf(text, "F")
        rest == SubSeq(text, i + 1, Len(text))
        j == IndexOf(rest, "F")
        inner == SubSeq(rest, 1, j - 1)
        untagged == IF inner # <<>> /\ Head(inner) = "J" THEN Tail(inner) ELSE inner
    IN TrimRight(TrimLeft(untagged))

\* a mutation: the full text is the candidate even when there is a fence
extractJsonNoFence(text) ==
    LET s == IndexOf(text, "{")
        e == LastIndexOf(text, "}")
        sliced == IF s # 0 /\ e # 0 /\ e > s THEN JsonParse(SubSeq(text, s, e)) ELSE NoJson
    IN IF text = <<>> THEN NoJson
       ELSE IF sliced.ok THEN sliced
       ELSE JsonParse(text)

extractJson(text) ==
    LET candidate == IF HasFence(text) THEN FenceContent(text) ELSE text
        s == IndexOf(candidate, "{")
        e == LastIndexOf(candidate, "}")
        sliced == IF s # 0 /\ e # 0 /\ e > s
                  THEN JsonParse(SubSeq(candidate, s, e)) ELSE NoJson
    IN IF text = <<>> THEN NoJson
       ELSE IF sliced.ok THEN sliced
       ELSE JsonParse(candidate)

\* a mutation: the draft's body is left empty
DraftEmpty(r, text) == Entry(<<"Draft">>, <<>>)

\* the synthetic draft: a placeholder subject, the raw text as body
Draft(r, text) == Entry(IF r = "index" THEN <<"Draft">> ELSE <<"(no subject)">>, text)

\* emails.slice(0, count)
FirstN(seq, n) == SubSeq(seq, 1, IF Len(seq) < n THEN Len(seq) ELSE n)

\* index.js 157-171: the emails of the answer
EmailsIndex(text, count) ==
    LET parsed == extractJson(text)
        single == JsonParse(text)
        emails == IF parsed.ok /\ IsArrayMember(parsed.emails)
                  THEN SelectSeq(ArrOf(parsed.emails), IsValidEntry)
                  ELSE IF single.ok /\ single.single THEN <<Single>> ELSE <<>>
    IN IF emails = <<>> THEN <<Draft("index", text)>> ELSE FirstN(emails, count)

\* app.js 233-236: the emails of the answer
EmailsAppB(text) ==
    LET parsed == extractJson(text)
    IN IF ~parsed.ok THEN <<Draft("appB", text)>>
       ELSE IF IsArrayMember(parsed.emails) THEN ArrOf(parsed.emails) ELSE <<>>

\* /generate from the vendor's answer to the response
HandleText ==
    /\ pin.kind = "text" /\ pout.kind = "none"
    /\ pout' = [kind |-> "text", status |-> 200, parsed |-> extractJson(pin.text),
                emails |-> IF pin.rev = "index" THEN EmailsIndex(pin.text, pin.count)
                           ELSE EmailsAppB(pin.text)]
    /\ UNCHANGED <<quotaVars, rateVars, pin>>

InitText ==
    /\ IdleServer
    /\ \E r \in TextRevs, text \in Texts, count \in 1..MaxCount :
          pin = [kind |-> "text", rev |-> r, text |-> text, count |-> count]
    /\ pout = [kind |-> "none"]

SpecText == InitText /\ [][HandleText]_vars

\* the first fenced block of the text holds, between prose, the one object
\* { m }, and no other brace
FirstBlockHolds(text, m) ==
    \E i, j \in 1..Len(text) :
        /\ i < j /\ text[i] = "F" /\ text[j] = "F"
        /\ \A k \in 1..(j - 1) : k # i => text[k] # "F"
        /\ \E a \in (i + 1)..(j - 3) :
              /\ SubSeq(text, a, a + 2) = <<"{", m, "}">>
              /\ \A k \in (i + 1)..(j - 1) :
                    k \notin a..(a + 2) => text[k] \in {"J", "W", "T"}

\* C13 as claimed: when the text contains a fenced block whose content is a
\* JSON object with a valid emails array, the emails of the answer equal
\* that array.
C13_Original ==
    \A m \in {"E1", "E2"} :
        (pout.kind = "text" /\ FirstBlockHolds(pin.text, m)) => pout.emails = ArrOf(m)

\* C13 amended: when the first fenced block of the text holds a JSON object
\* with a valid emails array, the emails of the answer are that array, in
\* index.js cut to the first `count` entries; the fenced content is the
\* candidate even when the text outside the fence has braces, and the
\* first-'{'-to-last-'}' substring is parsed before the whole candidate (an
\* array holding one object is parsed as that object).
C13_FencedRecovery ==
    /\ \A m \in {"E1", "E2"} :
          (pout.kind = "text" /\ FirstBlockHolds(pin.text, m)) =>
              /\ pout.parsed.ok /\ pout.parsed.emails = m
              /\ pout.emails = IF pin.rev = "index" THEN FirstN(ArrOf(m), pin.count)
                               ELSE ArrOf(m)
    /\ (pout.kind = "text" /\ pin.text = <<"[", "{", "S", "}", "]">>) =>
          (pout.parsed.type = "object" /\ pout.parsed.single)

C13_Witness ==
    /\ pout.kind = "text" /\ pin.rev = "index" /\ pin.count = 1
    /\ pin.text = <<"{", "K", "}", "F", "J", "W", "{", "E2", "}", "W", "F">>
    /\ pout.emails = <<Ok1>>

Placeholders == {<<"Draft">>, <<"(no subject)">>}

\* C14: for a non-empty LLM text from which no JSON can be parsed (neither
\* from the candidate's brace substring, nor from the candidate, nor from the
\* text), /generate answers 200 with exactly one draft whose body is the raw
\* text and whose subject is a placeholder.
C14_UnparsableDraft ==
    (/\ pout.kind = "text" /\ pin.text # <<>>
     /\ ~pout.parsed.ok /\ ~JsonParse(pin.text).ok) =>
        /\ pout.status = 200
        /\ Len(pout.emails) = 1
        /\ pout.emails[1].body = pin.text
        /\ pout.emails[1].subject \in Placeholders

C14_Witness ==
    /\ pout.kind = "text" /\ pin.text = <<"{", "K", "}", "{", "E2", "}">>
    /\ pout.status = 200 /\ Len(pout.emails) = 1 /\ pout.emails[1].body = pin.text

\* C15: when the LLM text parses as JSON but the value has no array field
\* emails, /generate falls back to one draft: here only that it never
\* answers with an empty emails list for a non-empty text.
C15_NoEmptyList ==
    (/\ pout.kind = "text" /\ pin.text # <<>>
     /\ pout.parsed.ok /\ ~IsArrayMember(pout.parsed.emails)) =>
        pout.emails # <<>>

---------------------------------------------------------------------------
(* The vendor failure specification: what a handler answers when its call *)
(* to the LLM vendor or to the payments vendor fails                      *)

ErrRevs == {"part002", "index", "appB", "app", "part004", "part001", "part003", "part000"}

\* the routes of revision r that call a vendor
VendorRoutes(r) ==
    CASE r = "part002" -> {"generate"}
      [] r = "index" -> {"generate", "checkout"}
      [] r = "appB" -> {"generate", "checkout", "portal"}
      [] OTHER -> {"generate", "checkout", "portal", "claim"}

\* the call is rejected (throw), or the vendor answers with a status that is
\* not 2xx and a body
FailureKinds == {"throw", "non2xx"}

VendorStatuses == {400, 401, 429, 500, 503}

\* what the body of the answer is made of
Generic == {"generic"}

WithVendorBody == {"generic", "vendorBody"}

WithMessage == {"generic", "exceptionMessage"}

Failed(status, parts) == [kind |-> "err", status |-> status, parts |-> parts]

\* /generate; the openai package throws on a non-2xx answer, with e.status
GenerateFailure(r, kind, vstatus) ==
    CASE r = "index" ->
            IF kind = "non2xx" THEN Failed(502, WithVendorBody) ELSE Failed(500, WithMessage)
      [] r = "part002" ->
            IF kind = "non2xx" THEN Failed(500, WithVendorBody) ELSE Failed(500, WithMessage)
      [] r = "appB" ->
            IF kind = "non2xx" THEN Failed(vstatus, WithVendorBody) ELSE Failed(500, Generic)
      [] r = "part000" -> Failed(502, Generic)
      [] OTHER ->
            IF kind = "non2xx" /\ vstatus = 429 THEN Failed(429, Generic)
            ELSE Failed(500, Generic)

\* /checkout, /portal and /claim; the stripe package throws
PaymentsFailure(r, route) ==
    CASE route = "checkout" /\ r \in {"index", "part001", "part003"} -> Failed(500, WithMessage)
      [] route = "portal" /\ r = "appB" -> Failed(500, WithMessage)
      [] OTHER -> Failed(500, Generic)

HandleFailure ==
    /\ pin.kind = "err" /\ pout.kind = "none"
    /\ pout' = IF pin.route = "generate"
               THEN GenerateFailure(pin.rev, pin.failure, pin.vstatus)
               ELSE PaymentsFailure(pin.rev, pin.route)
    /\ UNCHANGED <<quotaVars, rateVars, pin>>

InitErr ==
    /\ IdleServer
    /\ \E r \in ErrRevs, kind \in FailureKinds, vstatus \in VendorStatuses :
          \E route \in VendorRoutes(r) :
             pin = [kind |-> "err", rev |-> r, route |-> route, failure |-> kind,
                    vstatus |-> vstatus]
    /\ pout = [kind |-> "none"]

SpecErr == InitErr /\ [][HandleFailure]_vars

\* C16: on a vendor failure the answer holds a generic error message only,
\* never the vendor's response body or the exception's message.
C16_NoLeak == pout.kind = "err" => pout.parts \subseteq Generic

----------------------------------------------------------------------------
\* The entitlement token of part_000 over time: one /generate request that
\* carries the cookie of an earlier /claim, or no cookie.

\* the latest time of a /claim
MaxIssue == 2

\* how long after the token's expiry a request may come
MaxAfter == 2

TokenTimes == 0..(MaxIssue + COOKIE_DAYS + MaxAfter)

\* part_000 freeQuota: the status it answers with, 0 when it calls next()
freeQuota(plan, n) ==
    IF plan = "premium" THEN 0
    ELSE IF CapReached(n) THEN 402
    ELSE 0

\* detectPlan then freeQuota, for the presented cookies and for none
HandleToken ==
    /\ pin.kind = "token" /\ pout.kind = "none"
    /\ LET issuedCookies == ClaimCookies("part000", "premium", pin.issued)
           cookies == IF pin.withCookie THEN issuedCookies ELSE {}
           plan == detectPlan(cookies, pin.hdr, pin.present)
           bare == detectPlan({}, pin.hdr, pin.present)
       IN pout' = [kind |-> "token", plan |-> plan, status |-> freeQuota(plan, pin.n),
                   barePlan |-> bare, bareStatus |-> freeQuota(bare, pin.n),
                   exp |-> b64decode(readCookie(issuedCookies, "ap_premium").data).exp]
    /\ UNCHANGED <<quotaVars, rateVars, pin>>

InitToken ==
    /\ IdleServer
    /\ \E issued \in 0..MaxIssue, present \in TokenTimes, n \in 0..FREE_DAILY_LIMIT,
          hdr \in {"none", "premium"}, withCookie \in BOOLEAN :
          /\ present >= issued
          /\ pin = [kind |-> "token", rev |-> "part000", issued |-> issued,
                    present |-> present, n |-> n, hdr |-> hdr, withCookie |-> withCookie]
    /\ pout = [kind |-> "none"]

SpecToken == InitToken /\ [][HandleToken]_vars

\* C17: a token presented after its embedded expiry (COOKIE_DAYS after the
\* claim) is treated exactly like no token: the same tier and the same quota
\* answer, free and 402 at the cap when no plan header is sent; a token
\* presented before its expiry gives the premium tier, which the quota lets
\* pass.
C17_TokenExpiry ==
    (pout.kind = "token" /\ pin.withCookie) =>
        /\ pout.exp = pin.issued + COOKIE_DAYS
        /\ pin.present > pout.exp =>
              /\ pout.plan = pout.barePlan /\ pout.status = pout.bareStatus
              /\ pin.hdr = "none" => pout.plan = "free"
              /\ (pin.hdr = "none" /\ pin.n >= FREE_DAILY_LIMIT) => pout.status = 402
        /\ pin.present < pout.exp => (pout.plan = "premium" /\ pout.status = 0)

\* an expired token, presented at the cap, is answered 402
C17_Witness ==
    /\ pout.kind = "token" /\ pin.withCookie /\ pin.hdr = "none"
    /\ pin.present > pin.issued + COOKIE_DAYS
    /\ pin.n = FREE_DAILY_LIMIT /\ pout.status = 402 /\ pout.plan = "free"

----------------------------------------------------------------------------
\* The payments webhook beside /claim and /generate.

\* revisions with a POST /stripe/webhook route
HookRevs == {"app", "part004", "part001", "part000"}

HookEvents == {"customer.subscription.deleted", "invoice.payment_failed"}

\* the answer of the webhook route: part_000 answers 200 '[noop]' without a
\* configured secret, the other revisions register the route only with one
WebhookStatus(r, secret, sigOk) ==
    IF ~secret THEN (IF r = "part000" THEN 200 ELSE 404)
    ELSE IF sigOk THEN 200
    ELSE 400

\* a webhook handler that would count the event
WebhookCounted(event, secret, sigOk) ==
    /\ rev \in HookRevs
    /\ pout' = [kind |-> "webhook", event |-> event,
                status |-> WebhookStatus(rev, secret, sigOk)]
    /\ counters' = [counters EXCEPT !.totalCalls = @ + 1]
    /\ UNCHANGED <<rev, turnstile, today, heap, usage, hits, inflight, jar, nReq,
                   n200, nVendor, last, overlap, rateVars, pin>>

\* POST /stripe/webhook: constructEvent verifies the signature (sigOk) or
\* throws; the event is logged and nothing is stored
Webhook(event, secret, sigOk) ==
    /\ rev \in HookRevs
    /\ pout' = [kind |-> "webhook", event |-> event,
                status |-> WebhookStatus(rev, secret, sigOk)]
    /\ UNCHANGED <<quotaVars, rateVars, pin>>

\* /claim, then /generate with the browser's cookies, one request after
\* another, and webhook events at any time
NextHook ==
    \/ \E ip \in Ips, cookies \in {{}, jar}, pre \in {"pass"}, bodyOk \in {TRUE} :
            /\ inflight = EmptyBag
            /\ GenStart(ip, cookies, "none", pre, bodyOk)
            /\ UNCHANGED <<rateVars, pureVars>>
    \/ \E h \in BagToSet(inflight), outcome \in VerifyOutcomes :
            GenCaptchaDone(h, outcome) /\ UNCHANGED <<rateVars, pureVars>>
    \/ \E h \in BagToSet(inflight), result \in VendorResults :
            GenVendorDone(h, result) /\ UNCHANGED <<rateVars, pureVars>>
    \/ \E s \in Sessions :
            Claim(TRUE, s) /\ UNCHANGED <<rateVars, pureVars>>
    \/ \E event \in HookEvents, secret \in BOOLEAN, sigOk \in BOOLEAN :
            Webhook(event, secret, sigOk)

InitHook == Init /\ rev \in HookRevs

SpecHook == InitHook /\ [][NextHook]_vars

\* the tier /generate gives to the cookies the browser holds
JarTier == TierOf(rev, jar, "none", today)

----------------------------------------------------------------------------
\* The calendar day: /generate of clients without an entitlement, the day's
\* rollover, and /metrics.

\* revisions with a GET /metrics route
MetricsRevs == {"app", "part004", "part001"}

DayKeys(day) == {k \in Keys : k[2] = day}

\* midnight (UTC): dayKey() gives the next date from here on
DayRollover ==
    /\ today < MaxDay
    /\ today' = today + 1
    /\ UNCHANGED <<rev, turnstile, heap, usage, hits, counters, inflight, jar, nReq,
                   n200, nVendor, last, overlap, rateVars, pureVars>>

\* GET /metrics: the entries of the usage map whose key ends with today's
\* date are counted; totalCalls and limit402 are read from counters
Metrics ==
    /\ rev \in MetricsRevs
    /\ pout' = [kind |-> "metrics", today |-> today,
                uniqueIPs |-> Cardinality({k \in DayKeys(today) : usage[k] # 0}),
                totalCalls |-> counters.totalCalls,
                limit402 |-> counters.limit402]
    /\ UNCHANGED <<quotaVars, rateVars, pin>>

\* /generate handlers interleaved, and the rollover at any time
NextDay ==
    \/ \E ip \in Ips, pre \in {"pass", "limited"} :
            GenStart(ip, {}, "none", pre, TRUE) /\ UNCHANGED <<rateVars, pureVars>>
    \/ \E h \in BagToSet(inflight), outcome \in {"success", "failure"} :
            GenCaptchaDone(h, outcome) /\ UNCHANGED <<rateVars, pureVars>>
    \/ \E h \in BagToSet(inflight), result \in {"ok", "error"} :
            GenVendorDone(h, result) /\ UNCHANGED <<rateVars, pureVars>>
    \/ DayRollover

SpecDay == Init /\ [][NextDay]_vars

\* /generate one request after another, the rollover and /metrics at any time
NextMetrics ==
    \/ \E ip \in Ips, pre \in PreChoices :
            /\ inflight = EmptyBag
            /\ GenStart(ip, {}, "none", pre, TRUE)
            /\ UNCHANGED <<rateVars, pureVars>>
    \/ \E h \in BagToSet(inflight), outcome \in VerifyOutcomes :
            GenCaptchaDone(h, outcome) /\ UNCHANGED <<rateVars, pureVars>>
    \/ \E h \in BagToSet(inflight), result \in VendorResults :
            GenVendorDone(h, result) /\ UNCHANGED <<rateVars, pureVars>>
    \/ DayRollover
    \/ Metrics

InitMetrics == Init /\ rev \in MetricsRevs

SpecMetrics == InitMetrics /\ [][NextMetrics]_vars

\* the identity of the last answer, the day before
DayBefore == <<last.ip, last.key[2] - 1>>

\* the last answer is that of the identity's first /generate of a day after
\* a day on which it had FREE_DAILY_LIMIT successful answers
FirstOfNextDay ==
    /\ IsGen /\ last.tier = "free"
    /\ last.key[2] > 0 /\ last.k = 0
    /\ n200[DayBefore] >= FREE_DAILY_LIMIT

LimitHits == [k \in Keys |-> EntryOf(heap, usage[k]).limitHits]

\* C20: what /metrics reports as totalCalls and limit402 are the /generate
\* requests and the quota rejections of the current day.
C20_MetricsToday ==
    [][pout' # pout =>
          /\ pout'.totalCalls = SumOver(nReq, DayKeys(today))
          /\ pout'.limit402 = SumOver(LimitHits, DayKeys(today))]_vars

----------------------------------------------------------------------------
\* Vendor calls per request (specification Spec)

----------------------------------------------------------------------------
\* The configuration at startup: the process starts with some of the required
\* values set, then answers one request if it listens.

ConfigRevs == {"index", "appB", "app", "part004", "part001", "part003", "part000", "part002"}

\* the required values: LLM API key, payments secret key, price identifiers
Required == {"OPENAI_API_KEY", "STRIPE_SECRET_KEY", "STANDARD_PRICE_ID", "PREMIUM_PRICE_ID"}

\* revisions that validate process.env with Env.parse and exit on an error
ParsesEnv(r) == r \in {"app", "part004", "part001", "part003"}

\* the process reaches app.listen
Starts(r, cfg) == ParsesEnv(r) => Required \subseteq cfg

ConfigRoutes(r) == IF r = "part002" THEN {"generate"} ELSE {"generate", "checkout"}

\* the answer to a well-formed request of a listening server:
\* configError says that the answer names a missing configuration value
ConfigAnswer(r, cfg, route, plan) ==
    LET priceId == IF plan = "premium" THEN "PREMIUM_PRICE_ID" ELSE "STANDARD_PRICE_ID"
        ans(status, configError) ==
            [kind |-> "answer", status |-> status, configError |-> configError]
    IN IF route = "generate"
       THEN IF "OPENAI_API_KEY" \in cfg THEN ans(200, FALSE)
            ELSE CASE r \in {"index", "appB"} -> ans(500, TRUE)
                   [] r = "part002" -> ans(500, FALSE)
                   [] OTHER -> ans(502, FALSE)
       ELSE IF r = "index" /\ "STRIPE_SECRET_KEY" \notin cfg THEN ans(501, TRUE)
            ELSE IF r = "appB" /\ "STRIPE_SECRET_KEY" \notin cfg THEN ans(400, TRUE)
            ELSE IF r \in {"index", "appB", "part000"} /\ priceId \notin cfg THEN ans(400, TRUE)
            ELSE ans(200, FALSE)

\* the module is loaded: Env.parse and process.exit(1), or app.listen
Boot ==
    /\ pin.kind = "config" /\ pout.kind = "none"
    /\ pout' = [kind |-> "boot",
                phase |-> IF Starts(pin.rev, pin.cfg) THEN "listening" ELSE "halted"]
    /\ UNCHANGED <<quotaVars, rateVars, pin>>

\* a request to a listening server
ConfigRequest ==
    /\ pin.kind = "config" /\ pout.kind = "boot" /\ pout.phase = "listening"
    /\ pout' = ConfigAnswer(pin.rev, pin.cfg, pin.route, pin.plan)
    /\ UNCHANGED <<quotaVars, rateVars, pin>>

\* part_000 constructs its payments client with the key at load time; its
\* configurations are those with that key set
InitConfig ==
    /\ IdleServer
    /\ \E r \in ConfigRevs, cfg \in SUBSET Required, plan \in {"standard", "premium"} :
          \E route \in ConfigRoutes(r) :
             /\ r = "part000" => "STRIPE_SECRET_KEY" \in cfg
             /\ pin = [kind |-> "config", rev |-> r, cfg |-> cfg, route |-> route,
                       plan |-> plan]
    /\ pout = [kind |-> "none"]

NextConfig == Boot \/ ConfigRequest

SpecConfig == InitConfig /\ [][NextConfig]_vars

\* C22: with a required configuration value absent the server halts at
\* startup: it never listens, and no request is answered with a
\* missing-configuration error.
C22_HaltsAtStartup ==
    (pin.kind = "config" /\ ~(Required \subseteq pin.cfg) /\ pout.kind # "none")
        => (pout.kind = "boot" /\ pout.phase = "halted")

----------------------------------------------------------------------------
\* What consumes the daily quota (specification Spec)

\* the count of key k that is compared with FREE_DAILY_LIMIT
QuotaCount(k) == IF rev = "part000" THEN hits[k] ELSE EntryOf(heap, usage[k]).calls

\* C23: only requests answered 200 consume the daily free quota: once every
\* request has been answered, an identity's count is no more than the number
\* of its requests answered 200.
C23_OnlySuccessCounts ==
    inflight = EmptyBag => \A k \in Keys : QuotaCount(k) <= n200[k]

----------------------------------------------------------------------------
\* The order of the checks of the /generate route (specification Spec)

----------------------------------------------------------------------------
\* The key a success is charged to (specification SpecDay)

\* C25: a successful /generate is charged to the usage key of its daily-cap
\* check: the step that answers 200 for a request checked under key k raises
\* the count of k by one, also when the day has rolled over in between.
\* (part_000 charges on arrival, in the step of the check itself.)
C25_ChargedToCheckedKey ==
    [][\A k \in Keys :
          (n200'[k] > n200[k] /\ rev # "part000")
              => QuotaCount(k)' = QuotaCount(k) + 1]_vars

----------------------------------------------------------------------------
\* The timestamp list of index.js (specification SpecRate)

\* the latest timestamp of a non-empty list
Latest(arr) == arr[Len(arr)]

\* C26: the list stored for an IP holds at most RATE_LIMIT_MAX timestamps,
\* all of them within RATE_LIMIT_WINDOW_MS of the most recent admitted
\* request, and a request answered 429 leaves every list as it was.
C26_ListInvariant ==
    /\ [](limiter = "list" =>
            \A ip \in Ips :
               /\ Len(buckets[ip]) <= RATE_LIMIT_MAX
               /\ \A i \in 1..Len(buckets[ip]) :
                     /\ buckets[ip][i] >= Latest(buckets[ip]) - RATE_LIMIT_WINDOW_MS
                     /\ buckets[ip][i] <= Latest(buckets[ip])
               /\ buckets[ip] # <<>> => Latest(buckets[ip]) = Latest(passed[ip]))
    /\ [][(limiter = "list" /\ lastR' # lastR /\ lastR'.out = "429")
            => buckets' = buckets]_vars

\* a full list, and a request answered 429
C26_Witness ==
    /\ limiter = "list" /\ lastR.out = "429"
    /\ Len(buckets[lastR.ip]) = RATE_LIMIT_MAX
    /\ buckets[lastR.ip][1] < Latest(buckets[lastR.ip])

\* retry_in_ms of a 429 answered at time t from the stored list arr:
\* Math.max(fresh[0] + RATE_LIMIT_WINDOW_MS - now, 0)
RetryInMs(arr, t) ==
    LET retryInMs == Fresh(arr, t)[1] + RATE_LIMIT_WINDOW_MS - t
    IN IF retryInMs > 0 THEN retryInMs ELSE 0

\* C27: when the timestamp-list limiter has answered 429 with retry_in_ms = r
\* at time t, then r >= 0 and the IP's next request, made at time t + r, is
\* admitted.
C27_RetryHonest ==
    [][(/\ limiter = "list" /\ lastR.out = "429"
        /\ now = lastR.at + RetryInMs(buckets[lastR.ip], lastR.at)
        /\ lastR'.ip = lastR.ip /\ lastR'.at = now /\ now > lastR.at)
          => lastR'.out = "next"]_vars

----------------------------------------------------------------------------
\* The fixed window of app.js (specification SpecRate)

\* C28: in the fixed-window limiter a request answered 429 adds one to hits
\* and leaves the window start where it was, and the first request of an IP
\* made more than RATE_LIMIT_WINDOW_MS after its window start is admitted
\* and starts a new window, however many requests were rejected before.
C28_WindowReopens ==
    [][\A ip \in Ips :
          (limiter = "window" /\ recs'[ip] # recs[ip]) =>
             /\ lastR'.out = "429" =>
                   /\ recs'[ip].start = recs[ip].start
                   /\ recs'[ip].hits = recs[ip].hits + 1
                   /\ now - recs[ip].start <= RATE_LIMIT_WINDOW_MS
             /\ (recs[ip].start >= 0 /\ now - recs[ip].start > RATE_LIMIT_WINDOW_MS) =>
                   /\ lastR'.out = "next"
                   /\ recs'[ip] = [start |-> now, hits |-> 1]]_vars

\* an IP that has been rejected twice in its window, after the window's start
C28_Witness ==
    /\ limiter = "window" /\ lastR.out = "429"
    /\ recs[lastR.ip].hits >= RATE_LIMIT_MAX + 2
    /\ now > recs[lastR.ip].start

----------------------------------------------------------------------------
\* The counters and the usage entries (specification Spec)

\* the calls of the usage entry of key k
Calls == [k \in Keys |-> EntryOf(heap, usage[k]).calls]

\* what the counters are compared with
CountersAgree ==
    rev \in MetricsRevs =>
        /\ counters.limit402 = SumOver(LimitHits, Keys)
        /\ counters.totalCalls >= counters.limit402 + SumOver(Calls, Keys)

----------------------------------------------------------------------------
\* The signed token of part_000: signToken, then verifyToken of the token or
\* of a changed one.

\* the largest exp and clock value
MaxExp == 3

Payloads == [plan : {"premium", "standard"}, exp : 0..MaxExp]

\* what is done to the token between signToken and verifyToken
Tampers == {"none", "data", "sig", "nodot"}

\* the cookie value presented: the token signToken made for p, the token with
\* the data of another payload, with a signature made without the secret, or
\* the data alone
Presented(p, other, tamper) ==
    CASE tamper = "none" -> signToken(p)
      [] tamper = "data" -> [data |-> b64url(other), sig |-> signToken(p).sig]
      [] tamper = "sig" -> [data |-> signToken(p).data,
                            sig |-> Hmac("guess", signToken(p).data)]
      [] tamper = "nodot" -> [data |-> signToken(p).data, sig |-> NoSig]

\* verifyToken and detectPlan for the presented cookie
HandleRound ==
    /\ pin.kind = "round" /\ pout.kind = "none"
    /\ LET tok == Presented(pin.p, pin.other, pin.tamper)
       IN pout' = [kind |-> "round", payload |-> verifyToken(tok, pin.clock),
                   plan |-> detectPlan({[name |-> "ap_premium", val |-> tok]},
                                       pin.hdr, pin.clock)]
    /\ UNCHANGED <<quotaVars, rateVars, pin>>

InitRound ==
    /\ IdleServer
    /\ \E p \in Payloads, other \in Payloads, clock \in 0..MaxExp, tamper \in Tampers,
          hdr \in {"none", "premium"} :
          /\ other # p
          /\ pin = [kind |-> "round", p |-> p, other |-> other, clock |-> clock,
                    tamper |-> tamper, hdr |-> hdr]
    /\ pout = [kind |-> "none"]

SpecRound == InitRound /\ [][HandleRound]_vars

=============================================================================
